---- MODULE Spec2Model ----
(***************************************************************************)
(* Model of the overlay renderer (src/electron_app/renderer/renderer.js,   *)
(* class AIOverlay): the canonical view-state, the merge of incoming       *)
(* patches, the input sub-mode, sound cues, the command file, the idle     *)
(* pulse and the completion cycle.                                         *)
(*                                                                         *)
(* Encoding of JavaScript values:                                          *)
(*   - strings held in the canonical state are TLA+ strings, "" is falsy;  *)
(*   - the text typed into the input control is a sequence of characters   *)
(*     so that String.prototype.trim can be computed;                      *)
(*   - null is the string Null, undefined (a missing soundTimestamp) is    *)
(*     the number UndefinedTs;                                             *)
(*   - a patch is a function from the keys it carries to their values.     *)
(***************************************************************************)
EXTENDS Integers, Sequences, FiniteSets, TLC

VARIABLES
    state,               \* this.state, the canonical view-state
    lastSoundTimestamp,  \* this.lastSoundTimestamp
    el,                  \* this.elements: what the DOM currently shows
    commandFile,         \* content of overlay_commands.json
    timers,              \* pending setTimeout callbacks of completion cycles
    played,              \* soundTimestamps whose cue was played (history variable)
    fx,                  \* what the step just taken did (history variable)
    app,                 \* main process: "starting", "ready" or "quit"
    platform,            \* process.platform, once the main process has read it
    mainWindow,          \* main process: mainWindow ("none", "open", "destroyed")
    stateFileWatcher,    \* main process: is the watcher on; the listener's curr and prev stat
    initialTimer,        \* main process: the 1000 ms timer of the initial read
    stateFile,           \* content of overlay_state.json
    mtime,               \* how often the agent has written or deleted the state file
    delivered            \* status-update messages sent so far (history variable)

rendererVars == <<state, lastSoundTimestamp, el, commandFile, timers, played, fx>>

mainVars == <<app, platform, mainWindow, stateFileWatcher, initialTimer,
              stateFile, mtime, delivered>>

vars == <<state, lastSoundTimestamp, el, commandFile, timers, played, fx,
          app, platform, mainWindow, stateFileWatcher, initialTimer,
          stateFile, mtime, delivered>>

----------------------------------------------------------------------------
(* Bounds of the model *)

MaxStep == 1        \* currentStep / totalSteps carried by patches: 0..MaxStep
MaxTs == 2          \* soundTimestamp carried by patches: 0..MaxTs
MaxLen == 2         \* length of the text typed into the input control
MaxNow == 1         \* Date.now() values: 1..MaxNow
MaxCycles == 2      \* completion cycles in flight at once
MaxWrites == 2      \* writes and deletions of the state file by the agent

----------------------------------------------------------------------------
(* JavaScript values *)

Null == "<null>"
UndefinedTs == -1
NoCommand == [action |-> "<none>"]

Chars == {" ", "a"}

RECURSIVE TextsUpTo(_)
TextsUpTo(n) ==
    IF n = 0 THEN {<<>>}
    ELSE LET shorter == TextsUpTo(n - 1)
         IN  shorter \cup {Append(t, c) : t \in shorter, c \in Chars}

Texts == TextsUpTo(MaxLen)

IsSpace(c) == c = " "

(* a trim of the left end only *)
TrimStart(t) ==
    IF t # <<>> /\ IsSpace(Head(t)) THEN Tail(t) ELSE t

(* String.prototype.trim: drop the whitespace at both ends *)
RECURSIVE TrimLeft(_)
TrimLeft(t) ==
    IF t = <<>> THEN <<>>
    ELSE IF IsSpace(Head(t)) THEN TrimLeft(Tail(t)) ELSE t

RECURSIVE TrimRight(_)
TrimRight(t) ==
    IF t = <<>> THEN <<>>
    ELSE IF IsSpace(t[Len(t)]) THEN TrimRight(SubSeq(t, 1, Len(t) - 1)) ELSE t

Trim(t) == TrimRight(TrimLeft(t))

(* truthiness of the values the model uses *)
TruthyStr(s) == s # "" /\ s # Null

----------------------------------------------------------------------------
(* Patches *)

Keys == <<"isActive", "isComplete", "isVisible", "currentStep", "totalSteps",
          "agentType", "taskName", "isWaitingForInput", "inputPrompt",
          "playSound", "soundTimestamp">>

Dom(k) ==
    CASE k = "isActive" -> BOOLEAN
      [] k = "isComplete" -> BOOLEAN
      [] k = "isVisible" -> BOOLEAN
      [] k = "isWaitingForInput" -> BOOLEAN
      [] k = "currentStep" -> 0..MaxStep
      [] k = "totalSteps" -> 0..MaxStep
      [] k = "agentType" -> {"Create", "Error", ""}
      [] k = "taskName" -> {"build", ""}
      [] k = "inputPrompt" -> {"name?", ""}
      [] k = "playSound" -> {"input", "task_complete", "chime", Null}
      [] k = "soundTimestamp" -> 0..MaxTs

EmptyPatch == [k \in {} |-> 0]

Extend(p, k, v) == [x \in DOMAIN p \cup {k} |-> IF x = k THEN v ELSE p[x]]

(* every patch over the keys ks[1..n] with values in their domains *)
RECURSIVE PatchesFrom(_, _)
PatchesFrom(ks, n) ==
    IF n = 0 THEN {EmptyPatch}
    ELSE LET rest == PatchesFrom(ks, n - 1)
         IN  rest \cup {Extend(p, ks[n], v) : p \in rest, v \in Dom(ks[n])}

PatchesOver(ks) == PatchesFrom(ks, Len(ks))

Has(p, k) == k \in DOMAIN p

----------------------------------------------------------------------------
(* The render projection: updateUI and the functions it calls *)

Markup == "<markup>"   \* text the page shows before the first updateUI
CheckMark == "<U+2713>"   \* the check mark character of the progress counter

AgentLabelOf(s) == IF s.agentType # "" THEN s.agentType ELSE "Create"

StatusLabelOf(s) ==
    IF ~s.isWaitingForInput
    THEN IF s.isComplete THEN "Status:" ELSE "Executing:"
    ELSE "Input:"

TaskTextOf(s) ==
    IF ~s.isWaitingForInput
    THEN IF s.isComplete THEN "task complete"
         ELSE IF s.taskName # "" THEN s.taskName ELSE "initializing"
    ELSE IF s.taskName # "" THEN s.taskName ELSE "enter your task"

(* the 'complete' class of taskDescription is only touched outside input mode *)
TaskCompleteClassOf(s, old) ==
    IF ~s.isWaitingForInput THEN s.isComplete ELSE old

(* a counter that tests the input mode before completion *)
CounterInputFirst(s) ==
    IF s.isWaitingForInput THEN "0/?"
    ELSE IF s.isComplete THEN CheckMark
    ELSE IF s.totalSteps = 0 THEN ""
    ELSE ToString(s.currentStep) \o "/" \o ToString(s.totalSteps)

CounterOf(s) ==
    IF s.isComplete THEN CheckMark
    ELSE IF s.isWaitingForInput THEN "0/?"
    ELSE IF s.totalSteps = 0 THEN ""
    ELSE ToString(s.currentStep) \o "/" \o ToString(s.totalSteps)

(* a bar class that tests the step index before completion *)
BarClassStepFirst(s, i) ==
    IF i < s.currentStep THEN "active"
    ELSE IF s.isComplete THEN "complete"
    ELSE "idle"

BarClassOf(s, i) ==
    IF s.isComplete THEN "complete"
    ELSE IF i < s.currentStep THEN "active"
    ELSE "idle"

(* updateProgressBars: bar i of the loop is element i + 1 of the sequence *)
BarsOf(s) ==
    IF s.isWaitingForInput \/ s.totalSteps = 0 THEN <<>>
    ELSE [n \in 1..s.totalSteps |-> BarClassOf(s, n - 1)]

(* an orb that tests completion before the error agent *)
OrbCompleteFirst(s) ==
    IF s.isComplete THEN {"complete"}
    ELSE IF s.agentType = "Error" THEN {"error"}
    ELSE IF s.isActive \/ s.isWaitingForInput THEN {"active"}
    ELSE {}

(* updateEnergyOrb: the state classes of the orb after the call *)
OrbOf(s) ==
    IF s.agentType = "Error" THEN {"error"}
    ELSE IF s.isComplete THEN {"complete"}
    ELSE IF s.isActive \/ s.isWaitingForInput THEN {"active"}
    ELSE {}

(* updateVisibility: is the slide-out class on the main container *)
SlideOutOf(s) == ~s.isVisible

(* a render that leaves the counter as it is while waiting for input *)
UpdateUIKeepingCounter(e, s) ==
    [e EXCEPT !.agentType = AgentLabelOf(s),
              !.statusLabel = StatusLabelOf(s),
              !.taskDescription = TaskTextOf(s),
              !.taskComplete = TaskCompleteClassOf(s, @),
              !.progressCounter = IF s.isWaitingForInput THEN @ ELSE CounterOf(s),
              !.progressBars = BarsOf(s),
              !.orb = OrbOf(s),
              !.slideOut = SlideOutOf(s),
              !.disabled = FALSE]

UpdateUI(e, s) ==
    [e EXCEPT !.agentType = AgentLabelOf(s),
              !.statusLabel = StatusLabelOf(s),
              !.taskDescription = TaskTextOf(s),
              !.taskComplete = TaskCompleteClassOf(s, @),
              !.progressCounter = CounterOf(s),
              !.progressBars = BarsOf(s),
              !.orb = OrbOf(s),
              !.slideOut = SlideOutOf(s),
              !.disabled = FALSE]

----------------------------------------------------------------------------
(* updateState and the input sub-mode *)

(* a merge that rebuilds the state from the defaults and the patch *)
MergeOntoDefaults(s, p) ==
    [k \in DOMAIN s \cup DOMAIN p |->
        IF k \in DOMAIN p THEN p[k]
        ELSE IF k = "taskName" THEN "initializing" ELSE s[k]]

Merge(s, p) ==
    [k \in DOMAIN s \cup DOMAIN p |-> IF k \in DOMAIN p THEN p[k] ELSE s[k]]

PatchSound(p) == IF Has(p, "playSound") THEN p.playSound ELSE Null
PatchTs(p) == IF Has(p, "soundTimestamp") THEN p.soundTimestamp ELSE UndefinedTs

(* a sound check without the comparison against the last fired timestamp *)
SoundFiresEveryTime(p, last) == TruthyStr(PatchSound(p))

(* a sound check against the canonical soundTimestamp *)
SoundFiresOnCanonical(p, last) ==
    TruthyStr(PatchSound(p)) /\ PatchTs(p) # state.soundTimestamp

(* the condition of the sound check *)
SoundFires(p, last) == TruthyStr(PatchSound(p)) /\ PatchTs(p) # last

(* playSound(soundType): the cue that is played, "none" for an unknown type *)
PlaySound(soundType) ==
    CASE soundType = "input" -> "input"
      [] soundType = "task_start" -> "task_start"
      [] soundType = "task_complete" -> "task_complete"
      [] soundType = "error" -> "error"
      [] OTHER -> "none"

(* a transition decided by the new value alone *)
ModeByLevel(was, now) == IF now THEN "enter" ELSE "exit"

(* which of enterInputMode / exitInputMode updateState runs *)
ModeTransition(was, now) ==
    IF ~was /\ now THEN "enter"
    ELSE IF was /\ ~now THEN "exit"
    ELSE "none"

(* an entry that copies the prompt to the placeholder even when it is empty *)
EnterCopyingPrompt(e, s) ==
    [e EXCEPT !.inputMode = TRUE,
              !.formHidden = FALSE,
              !.taskInfoHidden = TRUE,
              !.placeholder = s.inputPrompt]

EnterInputMode(e, s) ==
    [e EXCEPT !.inputMode = TRUE,
              !.formHidden = FALSE,
              !.taskInfoHidden = TRUE,
              !.placeholder = IF s.inputPrompt # "" THEN s.inputPrompt ELSE @]

(* an exit that clears the text and leaves the form shown *)
ExitClearingOnly(e) ==
    [e EXCEPT !.inputMode = FALSE,
              !.value = <<>>]

ExitInputMode(e) ==
    [e EXCEPT !.inputMode = FALSE,
              !.formHidden = TRUE,
              !.taskInfoHidden = FALSE,
              !.value = <<>>]

NoFx == [op |-> "init", patch |-> EmptyPatch, cue |-> "none", mode |-> "none",
         cmd |-> NoCommand, ok |-> TRUE]

(* updateState(newState); op names the caller for the history variable *)
UpdateState(p, op) ==
    LET fires == SoundFires(p, lastSoundTimestamp)
        s2 == Merge(state, p)
        mode == ModeTransition(state.isWaitingForInput, s2.isWaitingForInput)
        e1 == CASE mode = "enter" -> EnterInputMode(el, s2)
                [] mode = "exit" -> ExitInputMode(el)
                [] OTHER -> el
    IN  /\ lastSoundTimestamp' = IF fires THEN PatchTs(p) ELSE lastSoundTimestamp
        /\ state' = s2
        /\ el' = UpdateUI(e1, s2)
        /\ fx' = [NoFx EXCEPT !.op = op, !.patch = p, !.mode = mode,
                     !.cue = IF fires THEN PlaySound(PatchSound(p)) ELSE "none"]
        /\ played' = IF fires /\ PlaySound(PatchSound(p)) # "none"
                     THEN played \cup {PatchTs(p)} ELSE played

----------------------------------------------------------------------------
(* Initial state: the constructor, and the page as loaded *)

InitState ==
    [isActive |-> FALSE, isComplete |-> FALSE, isVisible |-> TRUE,
     currentStep |-> 0, totalSteps |-> 3, agentType |-> "Create",
     taskName |-> "initializing", isWaitingForInput |-> FALSE,
     inputPrompt |-> "", playSound |-> Null, soundTimestamp |-> 0]

InitElements ==
    [inputMode |-> FALSE, formHidden |-> TRUE, taskInfoHidden |-> FALSE,
     placeholder |-> Markup, value |-> <<>>, disabled |-> FALSE,
     agentType |-> Markup, statusLabel |-> Markup, taskDescription |-> Markup,
     taskComplete |-> FALSE, progressCounter |-> Markup, progressBars |-> <<>>,
     orb |-> {}, slideOut |-> FALSE]

(* overlay_state.json: absent, text that JSON.parse rejects, or the value  *)
(* JSON.parse returns; a non-object value carries the empty patch          *)
Absent == [kind |-> "absent", value |-> EmptyPatch]
Malformed == [kind |-> "malformed", value |-> EmptyPatch]
JsonNull == [kind |-> "null", value |-> EmptyPatch]
JsonObject(p) == [kind |-> "object", value |-> p]

(* the number 7 where the agent should write a string: JSON keeps the type, *)
(* the marker keeps it apart from every string the agent may send           *)
NumberSeven == "<number 7>"

StatePayloads ==
    {[taskName |-> "build"], [currentStep |-> 1], [taskName |-> NumberSeven]}

FileContents ==
    {Absent, Malformed, JsonNull} \cup {JsonObject(p) : p \in StatePayloads}

(* JSON.parse(fs.readFileSync(...)) returns a value rather than throwing *)
Parses(c) == c.kind \in {"null", "object"}

(* let stateFileWatcher = null, and no timer set *)
NoWatcher == [running |-> FALSE, seen |-> 0, prev |-> 0]
NoTimer == [status |-> "none", content |-> Absent, read |-> 0]

Init ==
    /\ state = InitState
    /\ lastSoundTimestamp = 0
    /\ el = InitElements
    /\ commandFile = NoCommand
    /\ timers = <<>>
    /\ played = {}
    /\ fx = NoFx
    /\ app = "starting"
    /\ platform = "<unread>"
    /\ mainWindow = "none"
    /\ stateFileWatcher = NoWatcher
    /\ initialTimer = NoTimer
    /\ stateFile = Absent
    /\ mtime = 0
    /\ delivered = <<>>

----------------------------------------------------------------------------
(* Actions *)

(* ipcRenderer.on('status-update'): a patch from the main process *)
StatusUpdate(P) ==
    /\ \E p \in P : UpdateState(p, "patch")
    /\ UNCHANGED <<commandFile, timers, mainVars>>

(* a pulse that toggles isActive whatever the state is *)
PulseAlways ==
    /\ state' = [state EXCEPT !.isActive = ~@]
    /\ el' = [el EXCEPT !.orb = OrbOf(state')]
    /\ fx' = [NoFx EXCEPT !.op = "pulse"]
    /\ UNCHANGED <<lastSoundTimestamp, commandFile, timers, played, mainVars>>

(* a pulse that flips isActive and renders nothing *)
PulseWithoutOrb ==
    /\ IF ~state.isComplete /\ ~state.isWaitingForInput
       THEN state' = [state EXCEPT !.isActive = ~@] /\ UNCHANGED el
       ELSE UNCHANGED <<state, el>>
    /\ fx' = [NoFx EXCEPT !.op = "pulse"]
    /\ UNCHANGED <<lastSoundTimestamp, commandFile, timers, played, mainVars>>

(* the setInterval callback of startPulseAnimation *)
PulseTick ==
    /\ IF ~state.isComplete /\ ~state.isWaitingForInput
       THEN /\ state' = [state EXCEPT !.isActive = ~@]
            /\ el' = [el EXCEPT !.orb = OrbOf(state')]
       ELSE UNCHANGED <<state, el>>
    /\ fx' = [NoFx EXCEPT !.op = "pulse"]
    /\ UNCHANGED <<lastSoundTimestamp, commandFile, timers, played, mainVars>>

Now == 1..MaxNow

(* a write that truncates the file before it fails *)
WriteTruncating(file, cmd, ok) == IF ok THEN cmd ELSE NoCommand

(* a write that keeps the fields of the previous command *)
WriteMerging(file, cmd, ok) ==
    IF ok
    THEN [k \in (DOMAIN file) \cup (DOMAIN cmd) |->
             IF k \in DOMAIN cmd THEN cmd[k] ELSE file[k]]
    ELSE file

(* fs.writeFileSync(this.commandFile, ...): replaces the content, or throws *)
WriteCommand(file, cmd, ok) == IF ok THEN cmd ELSE file

CloseCommand(t) == [action |-> "close", timestamp |-> t]
TextInputCommand(text, t) == [action |-> "text_input", text |-> text, timestamp |-> t]

(* click on the close button: sendCloseCommand *)
SendCloseCommand ==
    \E t \in Now, ok \in BOOLEAN :
        /\ commandFile' = WriteCommand(commandFile, CloseCommand(t), ok)
        /\ fx' = [NoFx EXCEPT !.op = "close", !.cmd = CloseCommand(t), !.ok = ok]
        /\ UNCHANGED <<state, lastSoundTimestamp, el, timers, played, mainVars>>

(* sendTextInputCommand(text): the elements after the call *)
AfterSendTextInput(e, ok) == IF ok THEN e ELSE [e EXCEPT !.disabled = FALSE]

(* a caller that leaves the control as sendTextInputCommand left it *)
LeaveInput(e) == e

(* what the caller of sendTextInputCommand does next *)
DisableInput(e) == [e EXCEPT !.disabled = TRUE]

(* the user edits the input control, which is shown and enabled *)
TypeText ==
    /\ ~el.formHidden /\ ~el.disabled
    /\ \E t \in Texts : t # el.value /\ el' = [el EXCEPT !.value = t]
    /\ fx' = [NoFx EXCEPT !.op = "type"]
    /\ UNCHANGED <<state, lastSoundTimestamp, commandFile, timers, played, mainVars>>

(* submit event of the input form: handleTextInput. The event comes from   *)
(* the keyboard in the input control, so the form is displayed              *)
(* (.input-form.hidden is display: none).                                   *)
HandleTextInput ==
    LET inputText == Trim(el.value)
    IN  /\ ~el.formHidden
        /\ IF inputText = <<>>
           THEN /\ fx' = [NoFx EXCEPT !.op = "submit"]
                /\ UNCHANGED <<state, lastSoundTimestamp, el, commandFile, timers, played, mainVars>>
           ELSE \E t \in Now, ok \in BOOLEAN :
                   /\ commandFile' =
                         WriteCommand(commandFile, TextInputCommand(inputText, t), ok)
                   /\ el' = DisableInput(AfterSendTextInput(el, ok))
                   /\ fx' = [NoFx EXCEPT !.op = "submit", !.ok = ok,
                                !.cmd = TextInputCommand(inputText, t)]
                   /\ UNCHANGED <<state, lastSoundTimestamp, timers, played, mainVars>>

(* Escape in the input control, whose form is displayed: handleEscapeKey *)
HandleEscapeKey ==
    \E t \in Now, ok \in BOOLEAN :
        /\ ~el.formHidden
        /\ commandFile' = WriteCommand(commandFile, TextInputCommand(<<>>, t), ok)
        /\ el' = DisableInput(AfterSendTextInput(el, ok))
        /\ fx' = [NoFx EXCEPT !.op = "escape", !.ok = ok,
                     !.cmd = TextInputCommand(<<>>, t)]
        /\ UNCHANGED <<state, lastSoundTimestamp, timers, played, mainVars>>

----------------------------------------------------------------------------
(* The main process: window, state-file watcher, initial read *)

(* a send that does not look at the window *)
SendAlways(w) == TRUE

(* if (mainWindow && !mainWindow.isDestroyed()) *)
CanSend(w) == w = "open"

(* a callback that sends what it read whether or not it parsed *)
ReadsAnything(c) == c.kind # "absent"

(* the watcher callback reaches its send: the file exists and parses *)
ReadsPatch(c) == c.kind # "absent" /\ Parses(c)

(* mainWindow.webContents.send('status-update', c) and the renderer's       *)
(* handler: updateState(c.value); updateState(null) throws at its first     *)
(* line, before anything is assigned                                        *)
SendStatusUpdate(c, via, read) ==
    /\ delivered' = Append(delivered, [via |-> via, read |-> read, content |-> c])
    /\ IF c.kind = "object"
       THEN UpdateState(c.value, "patch")
       ELSE /\ fx' = [NoFx EXCEPT !.op = "throw"]
            /\ UNCHANGED <<state, lastSoundTimestamp, el, played>>
    /\ UNCHANGED <<commandFile, timers>>

(* the page is loaded into a new window: a new AIOverlay *)
LoadPage ==
    /\ state' = InitState
    /\ lastSoundTimestamp' = 0
    /\ el' = InitElements
    /\ timers' = <<>>
    /\ played' = {}
    /\ fx' = [NoFx EXCEPT !.op = "load"]
    /\ UNCHANGED commandFile

(* the step is one of the main process alone *)
MainOnly(op) ==
    /\ fx' = [NoFx EXCEPT !.op = op]
    /\ UNCHANGED <<state, lastSoundTimestamp, el, commandFile, timers, played>>

(* a timer that is set whatever the initial read gave *)
TimerAlways(c, read) == [status |-> "pending", content |-> c, read |-> read]

(* the initial read of startStateFileWatcher: the timer it sets *)
InitialRead(c, read) ==
    IF c.kind # "absent" /\ Parses(c)
    THEN [status |-> "pending", content |-> c, read |-> read]
    ELSE NoTimer

(* the external agent writes or deletes overlay_state.json *)
AgentWrite ==
    /\ app # "quit"
    /\ mtime < MaxWrites
    /\ \E c \in FileContents :
          /\ c # stateFile
          /\ stateFile' = c
    /\ mtime' = mtime + 1
    /\ MainOnly("write")
    /\ UNCHANGED <<app, platform, mainWindow, stateFileWatcher, initialTimer,
                   delivered>>

(* app.whenReady().then: createWindow and startStateFileWatcher *)
AppReady ==
    /\ app = "starting"
    /\ app' = "ready"
    /\ platform' \in {"darwin", "linux"}
    /\ mainWindow' = "open"
    /\ stateFileWatcher' = [running |-> TRUE, seen |-> mtime, prev |-> mtime]
    /\ initialTimer' = InitialRead(stateFile, mtime)
    /\ LoadPage
    /\ UNCHANGED <<stateFile, mtime, delivered>>

(* a listener that is called once for every write of the file *)
WatcherPerWrite ==
    /\ app = "ready"
    /\ stateFileWatcher.running
    /\ stateFileWatcher.seen # mtime
    /\ stateFileWatcher' = [stateFileWatcher EXCEPT !.seen = @ + 1, !.prev = @]
    /\ IF ReadsPatch(stateFile) /\ CanSend(mainWindow)
       THEN SendStatusUpdate(stateFile, "watch", mtime)
       ELSE MainOnly("poll") /\ UNCHANGED delivered
    /\ UNCHANGED <<app, platform, mainWindow, initialTimer, stateFile, mtime>>

(* the listener of fs.watchFile, called when a poll (interval 100) finds   *)
(* the file's stat changed since the previous poll                         *)
WatcherCallback ==
    /\ app = "ready"
    /\ stateFileWatcher.running
    /\ stateFileWatcher.seen # mtime
    /\ stateFileWatcher' = [stateFileWatcher EXCEPT !.seen = mtime, !.prev = stateFileWatcher.seen]
    /\ IF ReadsPatch(stateFile) /\ CanSend(mainWindow)
       THEN SendStatusUpdate(stateFile, "watch", mtime)
       ELSE MainOnly("poll") /\ UNCHANGED delivered
    /\ UNCHANGED <<app, platform, mainWindow, initialTimer, stateFile, mtime>>

(* the setTimeout(..., 1000) callback of the initial read *)
InitialTimerFires ==
    /\ app = "ready"
    /\ initialTimer.status = "pending"
    /\ initialTimer' = [initialTimer EXCEPT !.status = "fired"]
    /\ IF CanSend(mainWindow)
       THEN SendStatusUpdate(initialTimer.content, "timer", initialTimer.read)
       ELSE MainOnly("timer") /\ UNCHANGED delivered
    /\ UNCHANGED <<app, platform, mainWindow, stateFileWatcher, stateFile, mtime>>

(* stopStateFileWatcher *)
StopStateFileWatcher(w) == IF w.running THEN [w EXCEPT !.running = FALSE] ELSE w

(* the window is closed: 'window-all-closed', and 'before-quit' when the   *)
(* handler quits                                                           *)
WindowAllClosed ==
    /\ app = "ready"
    /\ mainWindow = "open"
    /\ mainWindow' = "destroyed"
    /\ stateFileWatcher' = StopStateFileWatcher(stateFileWatcher)
    /\ app' = IF platform # "darwin" THEN "quit" ELSE app
    /\ MainOnly("closed")
    /\ UNCHANGED <<platform, initialTimer, stateFile, mtime, delivered>>

(* 'activate' (macOS: click on the dock icon) *)
Activate ==
    /\ app = "ready"
    /\ platform = "darwin"
    /\ IF mainWindow # "open"
       THEN mainWindow' = "open" /\ LoadPage
       ELSE MainOnly("activate") /\ UNCHANGED mainWindow
    /\ UNCHANGED <<app, platform, stateFileWatcher, initialTimer, stateFile,
                   mtime, delivered>>

(* the application is quit while its window is open: 'before-quit' *)
BeforeQuit ==
    /\ app = "ready"
    /\ mainWindow = "open"
    /\ app' = "quit"
    /\ mainWindow' = "destroyed"
    /\ stateFileWatcher' = StopStateFileWatcher(stateFileWatcher)
    /\ MainOnly("quit")
    /\ UNCHANGED <<platform, initialTimer, stateFile, mtime, delivered>>

----------------------------------------------------------------------------
(* The completion cycle *)

CompletePatch == [isComplete |-> TRUE]
HidePatch == [isVisible |-> FALSE]
(* a reset that does not slide the overlay back in *)
ResetWithoutShow == [isComplete |-> FALSE, currentStep |-> 0,
                     taskName |-> "initializing"]

ResetPatch == [isComplete |-> FALSE, isVisible |-> TRUE, currentStep |-> 0,
               taskName |-> "initializing"]

(* timers holds one entry for each cycle in flight, oldest first: "hide"    *)
(* while its 2000 ms timer is pending (its 2500 ms timer is pending too),   *)
(* "reset" once only its 2500 ms timer is left.                             *)

(* startCompleteCycle(): the immediate patch, and the two timers it sets;   *)
(* limit bounds the cycles in flight                                        *)
(* a start that clears the timers of the cycles in flight *)
StartCancelling(limit) ==
    /\ Len(timers) < limit
    /\ UpdateState(CompletePatch, "cycle")
    /\ timers' = <<"hide">>
    /\ UNCHANGED <<commandFile, mainVars>>

(* a start that sets isComplete and schedules nothing *)
StartWithoutTimers(limit) ==
    /\ Len(timers) < limit
    /\ UpdateState(CompletePatch, "cycle")
    /\ timers' = timers
    /\ UNCHANGED <<commandFile, mainVars>>

StartCompleteCycle(limit) ==
    /\ Len(timers) < limit
    /\ UpdateState(CompletePatch, "cycle")
    /\ timers' = Append(timers, "hide")
    /\ UNCHANGED <<commandFile, mainVars>>

(* the 2000 ms timer of the oldest cycle that still has one *)
FireHide ==
    \E i \in 1..Len(timers) :
        /\ timers[i] = "hide"
        /\ \A j \in 1..(i - 1) : timers[j] = "reset"
        /\ UpdateState(HidePatch, "hide")
        /\ timers' = [timers EXCEPT ![i] = "reset"]
        /\ UNCHANGED <<commandFile, mainVars>>

(* the 2500 ms timer of the oldest cycle, after its 2000 ms timer *)
FireReset ==
    /\ timers # <<>>
    /\ Head(timers) = "reset"
    /\ UpdateState(ResetPatch, "reset")
    /\ timers' = Tail(timers)
    /\ UNCHANGED <<commandFile, mainVars>>

----------------------------------------------------------------------------
(* Specifications *)

(* The input protocol: patches of the agent that drive the input sub-mode,  *)
(* with every user action, the idle pulse and one completion cycle at a     *)
(* time.                                                                    *)
ProtocolKeys == <<"isWaitingForInput", "inputPrompt">>
ProtocolPatches == PatchesOver(ProtocolKeys)

Next ==
    \/ StatusUpdate(ProtocolPatches)
    \/ PulseTick
    \/ SendCloseCommand
    \/ TypeText
    \/ HandleTextInput
    \/ HandleEscapeKey
    \/ StartCompleteCycle(1)
    \/ FireHide
    \/ FireReset

Spec == Init /\ [][Next]_vars

(* The merge: every patch over the progress fields and the visibility *)
MergeKeys == <<"currentStep", "totalSteps", "taskName", "isVisible">>
MergePatches == PatchesOver(MergeKeys)

NextMerge ==
    \/ StatusUpdate(MergePatches)
    \/ StartCompleteCycle(1)
    \/ FireHide
    \/ FireReset

SpecMerge == Init /\ [][NextMerge]_vars

(* Sound cues: every patch over playSound and soundTimestamp, and the       *)
(* patches of a completion cycle, which carry neither                       *)
SoundKeys == <<"playSound", "soundTimestamp">>
SoundPatches == PatchesOver(SoundKeys)

NextSound ==
    \/ StatusUpdate(SoundPatches)
    \/ StartCompleteCycle(1)
    \/ FireHide
    \/ FireReset

SpecSound == Init /\ [][NextSound]_vars

(* Rendering: patches that set one of the fields the projection reads *)
RenderKeys == <<"isComplete", "isWaitingForInput", "isVisible", "currentStep",
                "totalSteps", "agentType", "taskName">>
RenderPatches ==
    UNION {{Extend(EmptyPatch, RenderKeys[i], v) : v \in Dom(RenderKeys[i])} :
              i \in 1..Len(RenderKeys)}

NextRender ==
    \/ StatusUpdate(RenderPatches)
    \/ PulseTick
    \/ StartCompleteCycle(1)
    \/ FireHide
    \/ FireReset

SpecRender == Init /\ [][NextRender]_vars

(* Progress bars: patches that set one of the fields updateProgressBars     *)
(* reads, with step numbers that run past the number of steps               *)
BarPatches ==
    {[currentStep |-> v] : v \in 0..(MaxStep + 1)}
        \cup {[totalSteps |-> v] : v \in 0..MaxStep}
        \cup {[isComplete |-> b] : b \in BOOLEAN}
        \cup {[isWaitingForInput |-> b] : b \in BOOLEAN}

NextBars ==
    \/ StatusUpdate(BarPatches)
    \/ PulseTick

SpecBars == Init /\ [][NextBars]_vars

(* Overlapping completion cycles, with patches of the agent in between *)
CycleKeys == <<"currentStep", "isVisible", "isComplete">>
CyclePatches ==
    UNION {{Extend(EmptyPatch, CycleKeys[i], v) : v \in Dom(CycleKeys[i])} :
              i \in 1..Len(CycleKeys)}

NextCycles ==
    \/ StatusUpdate(CyclePatches)
    \/ StartCompleteCycle(MaxCycles)
    \/ FireHide
    \/ FireReset

SpecCycles == Init /\ [][NextCycles]_vars

(* Overlapping completion cycles after the agent's last patch: a patch is  *)
(* applied only as long as nothing but patches has happened                *)
PatchBeforeCycles ==
    /\ fx.op \in {"init", "patch"}
    /\ StatusUpdate(MergePatches)

NextQuiet ==
    \/ PatchBeforeCycles
    \/ StartCompleteCycle(MaxCycles)
    \/ FireHide
    \/ FireReset

SpecQuiet == Init /\ [][NextQuiet]_vars

(* The main process with the external agent; the renderer applies what it  *)
(* is sent                                                                 *)
NextMain ==
    \/ AgentWrite
    \/ AppReady
    \/ WatcherCallback
    \/ InitialTimerFires
    \/ WindowAllClosed
    \/ Activate
    \/ BeforeQuit

SpecMain == Init /\ [][NextMain]_vars

----------------------------------------------------------------------------
(* Properties *)

(* the steps that run updateState: an incoming patch, startCompleteCycle and *)
(* the two timers of a completion cycle                                      *)
UpdateOps == {"patch", "cycle", "hide", "reset"}

(* C1: after updateState(patch) every key of the patch holds the patch's     *)
(* value and every canonical key the patch does not carry keeps its previous *)
(* value.                                                                    *)
C1_Step ==
    fx'.op \in UpdateOps =>
        /\ DOMAIN state' = DOMAIN state \cup DOMAIN fx'.patch
        /\ \A k \in DOMAIN fx'.patch : state'[k] = fx'.patch[k]
        /\ \A k \in DOMAIN state \ DOMAIN fx'.patch : state'[k] = state[k]

C1_ShallowMerge == [][C1_Step]_vars

(* the patch {currentStep: 1} was applied and taskName, totalSteps are kept *)
C1_Witness ==
    /\ fx.op = "patch"
    /\ DOMAIN fx.patch = {"currentStep"}
    /\ state.currentStep = 1
    /\ state.taskName = "build"
    /\ state.totalSteps = 1

(* C2: enterInputMode runs exactly on a step that changes canonical          *)
(* isWaitingForInput from false to true, exitInputMode exactly on a step that *)
(* changes it from true to false, and a step that leaves it alone runs        *)
(* neither; isWaitingForInput changes in updateState only.                    *)
C2_Step ==
    LET was == state.isWaitingForInput
        now == state'.isWaitingForInput
    IN  /\ fx'.mode = "enter" <=> (~was /\ now)
        /\ fx'.mode = "exit" <=> (was /\ ~now)
        /\ fx'.mode = "enter" => el'.inputMode /\ ~el'.formHidden
        /\ fx'.mode = "exit" => ~el'.inputMode /\ el'.formHidden
        /\ fx'.mode = "none" =>
              /\ el'.inputMode = el.inputMode
              /\ el'.formHidden = el.formHidden
              /\ el'.placeholder = el.placeholder
        /\ was # now => fx'.op \in UpdateOps

C2_EdgeDetection == [][C2_Step]_vars

(* a patch that omits isWaitingForInput was applied in input mode, after an *)
(* earlier exit and re-entry                                                *)
C2_Witness ==
    /\ fx.op = "patch"
    /\ ~Has(fx.patch, "isWaitingForInput")
    /\ state.isWaitingForInput
    /\ fx.mode = "none"
    /\ el.placeholder = "name?"

(* C3 as stated: a cue is played at most once for each soundTimestamp value, *)
(* whatever timestamps are seen in between.                                  *)
C3_Orig_Step == fx'.cue # "none" => PatchTs(fx'.patch) \notin played

C3_Orig_OncePerTimestamp == [][C3_Orig_Step]_vars

(* C3 amended: a cue is never played for the timestamp recorded at the last  *)
(* sound check that passed, and playing it records its timestamp; so the cue *)
(* of one timestamp is played again only after a patch with a different      *)
(* timestamp passed the sound check in between.                              *)
C3_Step ==
    fx'.cue # "none" =>
        /\ PatchTs(fx'.patch) # lastSoundTimestamp
        /\ lastSoundTimestamp' = PatchTs(fx'.patch)

C3_OncePerRun == [][C3_Step]_vars

(* a patch repeated the timestamp of the cue played last and played nothing *)
C3_Witness ==
    /\ fx.op = "patch"
    /\ PatchSound(fx.patch) = "input"
    /\ PatchTs(fx.patch) \in played
    /\ PatchTs(fx.patch) = lastSoundTimestamp
    /\ fx.cue = "none"

(* C4: a patch whose playSound is one of the four cues plays it exactly when *)
(* its soundTimestamp differs from lastSoundTimestamp, and then records the  *)
(* timestamp; the second of two consecutive such patches with one timestamp  *)
(* plays nothing, a following one with another timestamp plays again; a      *)
(* patch without playSound plays nothing and records nothing.                *)
CueNames == {"input", "task_start", "task_complete", "error"}

SpecifiesCue(p) == Has(p, "playSound") /\ p.playSound \in CueNames

C4_Step ==
    LET p == fx'.patch
    IN  /\ fx'.op \notin UpdateOps =>
              fx'.cue = "none" /\ lastSoundTimestamp' = lastSoundTimestamp
        /\ (fx'.op \in UpdateOps /\ SpecifiesCue(p)) =>
              /\ fx'.cue \in {"none", p.playSound}
              /\ fx'.cue = p.playSound <=> PatchTs(p) # lastSoundTimestamp
              /\ lastSoundTimestamp' = PatchTs(p)
        /\ (fx'.op \in UpdateOps /\ ~Has(p, "playSound")) =>
              fx'.cue = "none" /\ lastSoundTimestamp' = lastSoundTimestamp
        /\ (fx'.op \in UpdateOps /\ fx.op \in UpdateOps
               /\ SpecifiesCue(p) /\ SpecifiesCue(fx.patch)) =>
              (fx'.cue = p.playSound <=> PatchTs(p) # PatchTs(fx.patch))

C4_SoundDedup == [][C4_Step]_vars

(* the same cue was played again for a timestamp that differs from the last *)
C4_Witness ==
    /\ fx.op = "patch"
    /\ fx.cue = "task_complete"
    /\ Cardinality(played) = 2
    /\ state.soundTimestamp # lastSoundTimestamp

(* C5 as stated: once rendered, exactly one of the normal, input-mode and    *)
(* complete displays is shown, and while isWaitingForInput is true the status *)
(* label, progress counter, bars and orb are those of the input-mode display, *)
(* whatever isComplete is.                                                    *)
Rendered == el.statusLabel # Markup

OrbOrError(tags) == IF state.agentType = "Error" THEN {"error"} ELSE tags

ShowsInput ==
    /\ el.statusLabel = "Input:"
    /\ el.progressCounter = "0/?"
    /\ el.progressBars = <<>>
    /\ el.orb = OrbOrError({"active"})

ShowsComplete ==
    /\ el.statusLabel = "Status:"
    /\ el.taskDescription = "task complete"
    /\ el.progressCounter = CheckMark
    /\ el.orb = OrbOrError({"complete"})

ShowsNormal ==
    /\ el.statusLabel = "Executing:"
    /\ el.progressCounter \notin {CheckMark, "0/?"}
    /\ el.orb \in {OrbOrError({"active"}), OrbOrError({})}

C5_Orig_OneDisplay ==
    Rendered =>
        /\ Cardinality({d \in {"normal", "input", "complete"} :
                          \/ d = "normal" /\ ShowsNormal
                          \/ d = "input" /\ ShowsInput
                          \/ d = "complete" /\ ShowsComplete}) = 1
        /\ state.isWaitingForInput => ShowsInput

(* C6 as stated: when the write of a submit or cancel fails, the input      *)
(* control is enabled once the handler has finished.                        *)
C6_Orig_EnabledAfterFailure ==
    (fx.op \in {"submit", "escape"} /\ fx.cmd # NoCommand /\ ~fx.ok) => ~el.disabled

(* C7: a submit whose text is non-empty after trimming makes one write, of a *)
(* text_input command whose text is the entered text without the whitespace  *)
(* at its ends, leaves the control disabled and the canonical state alone.   *)
Spaces(n) == [i \in 1..n |-> " "]

IsTrimOf(t, v) ==
    /\ \E i, j \in 0..Len(v) : v = Spaces(i) \o t \o Spaces(j)
    /\ t # <<>> => (t[1] # " " /\ t[Len(t)] # " ")

AllSpaces(v) == \A i \in 1..Len(v) : v[i] = " "

C7_Step ==
    (fx'.op = "submit" /\ ~AllSpaces(el.value)) =>
        /\ fx'.cmd.action = "text_input"
        /\ IsTrimOf(fx'.cmd.text, el.value)
        /\ fx'.cmd.text # <<>>
        /\ commandFile' = IF fx'.ok THEN fx'.cmd ELSE commandFile
        /\ el'.disabled
        /\ state' = state

C7_SubmitWrites == [][C7_Step]_vars

(* " a" was submitted: the command carries "a" and the control is disabled *)
C7_Witness ==
    /\ fx.op = "submit"
    /\ fx.ok
    /\ el.value = <<" ", "a">>
    /\ commandFile.action = "text_input"
    /\ commandFile.text = <<"a">>
    /\ el.disabled

(* C8 as stated: right after a successful submit or cancel, a pulse tick, a *)
(* close action, an empty submit or a timer of the completion cycle leaves  *)
(* the control disabled.                                                    *)
C8_Orig_Step ==
    (/\ fx.op \in {"submit", "escape"} /\ fx.cmd # NoCommand /\ fx.ok
     /\ el.disabled
     /\ \/ fx'.op \in {"pulse", "close", "hide", "reset"}
        \/ fx'.op = "submit" /\ fx'.cmd = NoCommand)
    => el'.disabled

C8_Orig_DisabledUntilPatch == [][C8_Orig_Step]_vars

(* C9: a submit of empty or whitespace-only text writes nothing and changes *)
(* neither the canonical state nor the disabled flag; a cancel makes a      *)
(* text_input command with empty text; a text_input command with empty text *)
(* is made by a cancel only.                                                *)
C9_Step ==
    /\ (fx'.op = "submit" /\ AllSpaces(el.value)) =>
          /\ fx'.cmd = NoCommand
          /\ commandFile' = commandFile
          /\ state' = state
          /\ el'.disabled = el.disabled
    /\ fx'.op = "escape" =>
          /\ fx'.cmd.action = "text_input"
          /\ fx'.cmd.text = <<>>
          /\ commandFile' = IF fx'.ok THEN fx'.cmd ELSE commandFile
    /\ (fx'.cmd.action = "text_input" /\ fx'.cmd.text = <<>>) => fx'.op = "escape"
    /\ (commandFile' # commandFile /\ commandFile'.action = "text_input"
           /\ commandFile'.text = <<>>) => fx'.op = "escape"

C9_EmptyTextIsCancel == [][C9_Step]_vars

(* whitespace was submitted after an earlier command, and nothing was written *)
C9_Witness ==
    /\ fx.op = "submit"
    /\ fx.cmd = NoCommand
    /\ el.value = <<" ", " ">>
    /\ commandFile.action = "text_input"
    /\ commandFile.text = <<"a">>

(* C10: a close action is possible in every state and writes a close command; *)
(* it leaves the canonical state, lastSoundTimestamp and every element,       *)
(* with the input-mode display and the disabled flag, unchanged, also when    *)
(* the write fails.                                                           *)
C10_Step ==
    fx'.op = "close" =>
        /\ fx'.cmd.action = "close"
        /\ commandFile' = IF fx'.ok THEN fx'.cmd ELSE commandFile
        /\ state' = state
        /\ lastSoundTimestamp' = lastSoundTimestamp
        /\ el' = el

C10_CloseFrame == [](ENABLED SendCloseCommand) /\ [][C10_Step]_vars

(* a close whose write failed, in input mode with the control disabled and *)
(* the overlay complete and hidden                                         *)
C10_Witness ==
    /\ fx.op = "close"
    /\ ~fx.ok
    /\ state.isWaitingForInput
    /\ state.isComplete
    /\ ~state.isVisible
    /\ el.disabled
    /\ commandFile.action = "text_input"

(* C11: startCompleteCycle sets isComplete at once; the 2000 ms timer then   *)
(* sets isVisible to false; the 2500 ms timer, which fires after the 2000 ms  *)
(* timer of its cycle, then sets isComplete=false, isVisible=true,            *)
(* currentStep=0 and taskName="initializing"; each of the three steps leaves  *)
(* every other field, with totalSteps, agentType and isWaitingForInput,       *)
(* unchanged.                                                                 *)
SameExcept(s, t, ks) ==
    /\ DOMAIN s = DOMAIN t
    /\ \A k \in DOMAIN s \ ks : s[k] = t[k]

C11_Step ==
    /\ fx'.op = "cycle" =>
          /\ state'.isComplete
          /\ SameExcept(state, state', {"isComplete"})
          /\ timers' = Append(timers, "hide")
    /\ fx'.op = "hide" =>
          /\ ~state'.isVisible
          /\ SameExcept(state, state', {"isVisible"})
          /\ timers = <<"hide">> /\ timers' = <<"reset">>
    /\ fx'.op = "reset" =>
          /\ ~state'.isComplete /\ state'.isVisible
          /\ state'.currentStep = 0 /\ state'.taskName = "initializing"
          /\ SameExcept(state, state',
                        {"isComplete", "isVisible", "currentStep", "taskName"})
          /\ timers = <<"reset">> /\ timers' = <<>>

C11_CompleteCycle == [][C11_Step]_vars

(* the 2500 ms timer has just reset a cycle that started with currentStep 1 *)
(* and taskName "build"; totalSteps was set by the agent                     *)
C11_Witness ==
    /\ fx.op = "reset"
    /\ timers = <<>>
    /\ ~state.isComplete /\ state.isVisible
    /\ state.currentStep = 0 /\ state.taskName = "initializing"
    /\ state.totalSteps = 1

(* C12 as stated: an incoming patch that changes isComplete from false to    *)
(* true starts the completion cycle, so that its timers are pending after    *)
(* the step and hide and reset the overlay without a further patch.          *)
C12_Orig_Step ==
    (fx'.op = "patch" /\ ~state.isComplete /\ state'.isComplete) =>
        /\ Len(timers') = Len(timers) + 1
        /\ timers'[Len(timers')] = "hide"

C12_Orig_PatchStartsCycle == [][C12_Orig_Step]_vars

(* C16: after any sequence of close, submit and cancel actions the command  *)
(* file holds exactly the one command object of the most recent successful   *)
(* write: a successful write leaves the command of that call and nothing of  *)
(* an earlier command, a failed write and every other step leave the file    *)
(* as it was, and the file never holds anything but one close or text_input  *)
(* command.                                                                  *)
IsCloseCommand(c) ==
    /\ DOMAIN c = {"action", "timestamp"}
    /\ c.action = "close" /\ c.timestamp \in Now

IsTextInputCommand(c) ==
    /\ DOMAIN c = {"action", "text", "timestamp"}
    /\ c.action = "text_input" /\ c.text \in Texts /\ c.timestamp \in Now

C16_Step ==
    IF fx'.cmd # NoCommand /\ fx'.ok
    THEN /\ fx'.op \in {"close", "submit", "escape"}
         /\ commandFile' = fx'.cmd
         /\ IsCloseCommand(commandFile') \/ IsTextInputCommand(commandFile')
    ELSE commandFile' = commandFile

C16_LastWriterWins ==
    /\ [](commandFile = NoCommand \/ IsCloseCommand(commandFile)
                                  \/ IsTextInputCommand(commandFile))
    /\ [][C16_Step]_vars

(* a close was written while the input control was disabled by an earlier  *)
(* submit or cancel: the file holds the close command alone                 *)
C16_Witness ==
    /\ fx.op = "close" /\ fx.ok
    /\ el.disabled /\ ~el.formHidden
    /\ commandFile = [action |-> "close", timestamp |-> 1]

(* C17: once rendered, the progress counter reads the check mark when       *)
(* isComplete, else "0/?" when isWaitingForInput, else "" when totalSteps   *)
(* is 0, else "{currentStep}/{totalSteps}" in decimal.                      *)
DigitChar == <<"0", "1", "2", "3", "4", "5", "6", "7", "8", "9">>

RECURSIVE Decimal(_)
Decimal(n) ==
    IF n < 10 THEN DigitChar[n + 1]
    ELSE Decimal(n \div 10) \o DigitChar[(n % 10) + 1]

C17_Counter ==
    Rendered =>
        /\ state.isComplete => el.progressCounter = CheckMark
        /\ (~state.isComplete /\ state.isWaitingForInput) =>
               el.progressCounter = "0/?"
        /\ (~state.isComplete /\ ~state.isWaitingForInput
               /\ state.totalSteps = 0) => el.progressCounter = ""
        /\ (~state.isComplete /\ ~state.isWaitingForInput
               /\ state.totalSteps # 0) =>
               el.progressCounter =
                   Decimal(state.currentStep) \o "/" \o Decimal(state.totalSteps)

(* the overlay is complete while it waits for input: the check mark shows *)
C17_Witness ==
    /\ Rendered
    /\ state.isComplete /\ state.isWaitingForInput
    /\ state.totalSteps = 1
    /\ el.progressCounter = CheckMark

(* C18: once rendered, there are no bars when isWaitingForInput or          *)
(* totalSteps is 0; otherwise there are exactly totalSteps bars, all        *)
(* complete when isComplete, else the bars at index < currentStep active    *)
(* and the rest idle, also when currentStep exceeds totalSteps.             *)
C18_Bars ==
    Rendered =>
        IF state.isWaitingForInput \/ state.totalSteps = 0
        THEN el.progressBars = <<>>
        ELSE /\ Len(el.progressBars) = state.totalSteps
             /\ \A n \in 1..state.totalSteps :
                   /\ state.isComplete => el.progressBars[n] = "complete"
                   /\ (~state.isComplete /\ n - 1 < state.currentStep) =>
                          el.progressBars[n] = "active"
                   /\ (~state.isComplete /\ n - 1 >= state.currentStep) =>
                          el.progressBars[n] = "idle"

(* currentStep exceeds totalSteps and every bar is active *)
C18_Witness ==
    /\ Rendered
    /\ ~state.isWaitingForInput /\ ~state.isComplete
    /\ state.totalSteps >= 1
    /\ state.currentStep > state.totalSteps
    /\ Len(el.progressBars) = state.totalSteps
    /\ \A n \in 1..state.totalSteps : el.progressBars[n] = "active"

(* C19: after every updateState and after every pulse tick the orb carries  *)
(* at most one of error, complete, active: error when agentType is "Error", *)
(* else complete when isComplete, else active when isActive or              *)
(* isWaitingForInput, else none.                                            *)
C19_Orb ==
    (Rendered \/ fx.op = "pulse") =>
        /\ Cardinality(el.orb) <= 1
        /\ el.orb \subseteq {"error", "complete", "active"}
        /\ "error" \in el.orb <=> state.agentType = "Error"
        /\ "complete" \in el.orb <=>
               (state.agentType # "Error" /\ state.isComplete)
        /\ "active" \in el.orb <=>
               /\ state.agentType # "Error" /\ ~state.isComplete
               /\ state.isActive \/ state.isWaitingForInput

(* the error agent on a complete overlay: the orb is error, not complete *)
C19_Witness ==
    /\ fx.op = "patch"
    /\ state.agentType = "Error" /\ state.isComplete
    /\ el.orb = {"error"}

(* C13 as stated: patches are applied in the order in which their contents  *)
(* were read from the state file, so the content read at startup is never    *)
(* applied after a patch read from a later modification.                     *)
C13_Orig_AppliedInReadOrder ==
    \A i, j \in 1..Len(delivered) :
        (i < j /\ delivered[i].content.kind = "object"
               /\ delivered[j].content.kind = "object") =>
            delivered[i].read <= delivered[j].read

(* C14: a poll that finds the state file absent or not valid JSON delivers  *)
(* no patch, leaves the canonical state unchanged and leaves the            *)
(* application and its watcher running; and every poll that finds a JSON    *)
(* object while the window is open delivers that object, which is merged    *)
(* into the canonical state.                                                *)
Polled == stateFileWatcher'.seen # stateFileWatcher.seen /\ app = "ready"

C14_Step ==
    /\ (Polled /\ stateFile.kind \in {"absent", "malformed"}) =>
          /\ delivered' = delivered
          /\ state' = state /\ el' = el
          /\ app' = "ready"
          /\ stateFileWatcher'.running
          /\ stateFileWatcher'.seen = mtime
    /\ (Polled /\ stateFile.kind = "object" /\ mainWindow = "open") =>
          /\ delivered' = Append(delivered, [via |-> "watch", read |-> mtime,
                                             content |-> stateFile])
          /\ \A k \in DOMAIN stateFile.value : state'[k] = stateFile.value[k]
          /\ \A k \in DOMAIN state \ DOMAIN stateFile.value : state'[k] = state[k]

C14_SkipAndContinue == [][C14_Step]_vars

(* a poll has just skipped a malformed file: nothing was delivered, the    *)
(* watcher is on and the agent can still write                             *)
C14_Witness ==
    /\ fx.op = "poll"
    /\ stateFile.kind = "malformed"
    /\ mainWindow = "open"
    /\ delivered = <<>>
    /\ stateFileWatcher.running /\ stateFileWatcher.seen = mtime
    /\ mtime < MaxWrites

(* C15 as stated: a payload that parses but has a field of the wrong type,  *)
(* or is not an object, is discarded as a whole: the canonical state after  *)
(* the delivery equals the state before it.                                 *)
WellTyped(c) ==
    /\ c.kind = "object"
    /\ \A k \in DOMAIN c.value : c.value[k] # NumberSeven

C15_Orig_Step ==
    (Len(delivered') > Len(delivered)
        /\ ~WellTyped(delivered'[Len(delivered')].content)) => state' = state

C15_Orig_WrongTypesDiscarded == [][C15_Orig_Step]_vars

(* C20: when the watcher starts, the 1000 ms timer is set exactly if the    *)
(* state file exists and parses, and it holds the content read then; the    *)
(* timer fires once, and delivers that content exactly if the window is     *)
(* open when it fires; no other step delivers on behalf of the timer; the   *)
(* watcher is on after the start whatever the initial read gave.            *)
TimerDeliveries == {i \in 1..Len(delivered) : delivered[i].via = "timer"}

C20_Step ==
    /\ (app = "starting" /\ app' = "ready") =>
          /\ stateFileWatcher'.running
          /\ IF stateFile.kind \in {"null", "object"}
             THEN initialTimer' = [status |-> "pending", content |-> stateFile,
                                   read |-> mtime]
             ELSE initialTimer'.status = "none"
    /\ (app # "starting" /\ initialTimer.status # "pending") =>
          /\ initialTimer' = initialTimer
          /\ \A i \in 1..Len(delivered') :
                delivered'[i].via = "timer" => i \in TimerDeliveries
    /\ (initialTimer.status = "pending" /\ initialTimer'.status # "pending") =>
          /\ initialTimer'.status = "fired"
          /\ IF mainWindow = "open"
             THEN delivered' = Append(delivered,
                                      [via |-> "timer", read |-> initialTimer.read,
                                       content |-> initialTimer.content])
             ELSE delivered' = delivered
    /\ (initialTimer.status = "pending" /\ initialTimer'.status = "pending") =>
          \A i \in 1..Len(delivered') :
              delivered'[i].via = "timer" => i \in TimerDeliveries

C20_InitialPatch ==
    /\ [](Cardinality(TimerDeliveries) <= 1)
    /\ [][C20_Step]_vars

(* the timer has fired and delivered the content read at startup, after    *)
(* the watcher delivered nothing                                           *)
C20_Witness ==
    /\ initialTimer.status = "fired"
    /\ initialTimer.content = [kind |-> "object", value |-> [taskName |-> "build"]]
    /\ delivered = <<[via |-> "timer", read |-> initialTimer.read,
                      content |-> initialTimer.content]>>
    /\ state.taskName = "build"
    /\ fx.op = "patch"

(* C21: a pulse tick toggles isActive exactly when neither isComplete nor   *)
(* isWaitingForInput holds and otherwise changes nothing; in both cases      *)
(* every other canonical field, lastSoundTimestamp, the input-mode display   *)
(* and the disabled flag are unchanged, and no cue or command is produced.   *)
InputDisplay(e) ==
    <<e.inputMode, e.formHidden, e.taskInfoHidden, e.placeholder, e.value,
      e.disabled>>

C21_Step ==
    fx'.op = "pulse" =>
        /\ IF ~state.isComplete /\ ~state.isWaitingForInput
           THEN state'.isActive = ~state.isActive
           ELSE state' = state /\ el' = el
        /\ \A k \in DOMAIN state \ {"isActive"} : state'[k] = state[k]
        /\ DOMAIN state' = DOMAIN state
        /\ lastSoundTimestamp' = lastSoundTimestamp
        /\ InputDisplay(el') = InputDisplay(el)
        /\ fx'.cue = "none" /\ played' = played
        /\ fx'.cmd = NoCommand /\ commandFile' = commandFile
        /\ timers' = timers

C21_PulseFrame == [][C21_Step]_vars

(* a pulse tick in input mode, with the control disabled by a submit, has  *)
(* changed nothing                                                         *)
C21_Witness ==
    /\ fx.op = "pulse"
    /\ state.isWaitingForInput /\ ~state.isActive
    /\ el.disabled /\ ~el.formHidden
    /\ commandFile # NoCommand

(* C22: the projection (label, status label, task text, counter, bars, orb, *)
(* visibility) rendered by updateUI depends on the canonical state only:     *)
(* rendering the current state again gives the projection that the first     *)
(* rendering gives, and rendering it onto the page as loaded gives the same  *)
(* projection as rendering it onto the elements any history has left.        *)
Projection(e) ==
    <<e.agentType, e.statusLabel, e.taskDescription, e.progressCounter,
      e.progressBars, e.orb, e.slideOut>>

C22_ProjectionOfState ==
    /\ Projection(UpdateUI(UpdateUI(el, state), state)) =
           Projection(UpdateUI(el, state))
    /\ Projection(UpdateUI(el, state)) = Projection(UpdateUI(InitElements, state))
    /\ fx.op \in UpdateOps => Projection(el) = Projection(UpdateUI(InitElements, state))

(* two histories have left different elements (the complete class of the   *)
(* task text, which the projection does not include) for one state         *)
C22_Witness ==
    /\ fx.op = "patch"
    /\ state.isWaitingForInput /\ ~state.isComplete
    /\ el.taskComplete
    /\ el # UpdateUI(InitElements, state)
    /\ Projection(el) = Projection(UpdateUI(InitElements, state))

(* C29: in every state after a first updateState the displayed label,      *)
(* status label, task text, counter, bars, orb and visibility are those of  *)
(* the current canonical state, also after pulse ticks.                     *)
C29_DisplayIsProjection ==
    Rendered =>
        /\ el.agentType = AgentLabelOf(state)
        /\ el.statusLabel = StatusLabelOf(state)
        /\ el.taskDescription = TaskTextOf(state)
        /\ el.progressCounter = CounterOf(state)
        /\ el.progressBars = BarsOf(state)
        /\ el.orb = (IF state.agentType = "Error" THEN {"error"}
                     ELSE IF state.isComplete THEN {"complete"}
                     ELSE IF state.isActive \/ state.isWaitingForInput
                          THEN {"active"}
                     ELSE {})
        /\ el.slideOut = ~state.isVisible

(* a pulse tick has set isActive after a render, and the orb followed *)
C29_Witness ==
    /\ Rendered
    /\ fx.op = "pulse"
    /\ state.isActive
    /\ el.orb = {"active"}
    /\ el.progressCounter = "0/1"

(* C23: neither a patch nor the start of a new cycle cancels a timer of a   *)
(* cycle in flight, and a timer that fires overwrites whatever a patch has   *)
(* set since its cycle started: the hide timer sets isVisible to false, the  *)
(* reset timer sets isComplete=false, isVisible=true, currentStep=0 and      *)
(* taskName="initializing".                                                  *)
C23_Step ==
    /\ fx'.op \in {"patch", "cycle"} =>
          /\ Len(timers') >= Len(timers)
          /\ SubSeq(timers', 1, Len(timers)) = timers
    /\ fx'.op = "hide" => ~state'.isVisible
    /\ fx'.op = "reset" =>
          /\ ~state'.isComplete /\ state'.isVisible
          /\ state'.currentStep = 0 /\ state'.taskName = "initializing"
    /\ (timers # <<>> /\ timers[1] = "reset") => ENABLED FireReset

C23_TimersNotCancelled == [][C23_Step]_vars

(* two cycles are in flight; a patch has just set currentStep to 1, and    *)
(* the reset timer of the older cycle can fire next and set it back to 0   *)
C23_Witness ==
    /\ fx.op = "patch"
    /\ fx.patch = [currentStep |-> 1]
    /\ state.currentStep = 1
    /\ timers = <<"reset", "hide">>
    /\ ENABLED (FireReset /\ state'.currentStep = 0)

(* C27: when completion cycles have been started, overlapping in any way,  *)
(* and no patch arrives after the first of them, then once no timer is     *)
(* pending the state has isComplete=false, isVisible=true, currentStep=0   *)
(* and taskName="initializing".                                            *)
C27_CyclesSettle ==
    (timers = <<>> /\ fx.op \notin {"init", "patch"}) =>
        /\ ~state.isComplete /\ state.isVisible
        /\ state.currentStep = 0 /\ state.taskName = "initializing"

(* the last timer has fired after the agent had set totalSteps to 1 *)
C27_Witness ==
    /\ fx.op = "reset"
    /\ timers = <<>>
    /\ state.totalSteps = 1
    /\ ~state.isComplete /\ state.isVisible
    /\ state.currentStep = 0 /\ state.taskName = "initializing"

(* C24: when the agent has written the state file twice or more since the  *)
(* previous poll, the poll delivers at most one patch; if the file then     *)
(* holds an object and the window is open it delivers exactly that content, *)
(* the later one, and no key outside it changes in the canonical state; the *)
(* interval is consumed by that one callback, and no step other than a poll *)
(* delivers on behalf of the watcher.                                       *)
WatchDeliveries(d) == {i \in 1..Len(d) : d[i].via = "watch"}

C24_Step ==
    /\ (Polled /\ mtime - stateFileWatcher.seen >= 2) =>
          /\ Len(delivered') <= Len(delivered) + 1
          /\ stateFileWatcher'.seen = mtime
          /\ (stateFile.kind = "object" /\ mainWindow = "open") =>
                /\ delivered' = Append(delivered, [via |-> "watch", read |-> mtime,
                                                   content |-> stateFile])
                /\ DOMAIN state' = DOMAIN state \cup DOMAIN stateFile.value
                /\ \A k \in DOMAIN state \ DOMAIN stateFile.value :
                      state'[k] = state[k]
    /\ ~Polled => WatchDeliveries(delivered') = WatchDeliveries(delivered)

C24_LastWriteWins == [][C24_Step]_vars

(* one poll has covered two writes: it delivered the later content, which  *)
(* sets taskName, and currentStep is as it was                             *)
C24_Witness ==
    /\ fx.op = "patch"
    /\ stateFileWatcher.seen - stateFileWatcher.prev >= 2
    /\ Len(delivered) = 1
    /\ delivered[1] = [via |-> "watch", read |-> mtime,
                       content |-> [kind |-> "object",
                                    value |-> [taskName |-> "build"]]]
    /\ state.taskName = "build" /\ state.currentStep = 0

(* C25: on a false-to-true transition of isWaitingForInput the placeholder *)
(* becomes the inputPrompt of the merged state when that is non-empty and   *)
(* stays as it was when it is empty; on a true-to-false transition the      *)
(* entered text is cleared, the input form hidden and the task info shown.  *)
C25_Step ==
    /\ (~state.isWaitingForInput /\ state'.isWaitingForInput) =>
          /\ state'.inputPrompt # "" => el'.placeholder = state'.inputPrompt
          /\ state'.inputPrompt = "" => el'.placeholder = el.placeholder
          /\ ~el'.formHidden /\ el'.taskInfoHidden
    /\ (state.isWaitingForInput /\ ~state'.isWaitingForInput) =>
          /\ el'.value = <<>>
          /\ el'.formHidden /\ ~el'.taskInfoHidden
          /\ el'.placeholder = el.placeholder

C25_PromptAndExit == [][C25_Step]_vars

(* input mode was entered with an empty prompt after an earlier entry with *)
(* the prompt "name?": the placeholder is still "name?"                    *)
C25_Witness ==
    /\ fx.op = "patch" /\ fx.mode = "enter"
    /\ state.isWaitingForInput
    /\ state.inputPrompt = ""
    /\ el.placeholder = "name?"
    /\ el.value = <<>>

(* C26: in every reachable state the input form is shown, and the task     *)
(* info hidden, exactly when the canonical isWaitingForInput is true.      *)
C26_FormFollowsState ==
    /\ ~el.formHidden <=> state.isWaitingForInput
    /\ el.taskInfoHidden <=> state.isWaitingForInput
    /\ el.inputMode <=> state.isWaitingForInput

(* the form is hidden again after text was typed and submitted, a cycle    *)
(* ran and the agent ended the input mode                                  *)
C26_Witness ==
    /\ el.formHidden /\ ~el.taskInfoHidden
    /\ ~state.isWaitingForInput
    /\ commandFile.action = "text_input"
    /\ el.placeholder = "name?"
    /\ fx.op = "reset"

(* C28 as stated: whenever a main window exists after the application is   *)
(* ready, the state-file watcher is running.                               *)
C28_Orig_WatcherWhileWindow ==
    (app = "ready" /\ mainWindow = "open") => stateFileWatcher.running

(* C30 as stated: the first patch that carries playSound fires its cue,    *)
(* whatever its soundTimestamp is, 0 and absent included.                  *)
C30_Orig_Step ==
    (fx.op = "init" /\ fx'.op = "patch" /\ SpecifiesCue(fx'.patch)) =>
        /\ fx'.cue = fx'.patch.playSound
        /\ lastSoundTimestamp' = PatchTs(fx'.patch)

C30_Orig_FirstCueFires == [][C30_Orig_Step]_vars

(* C31: a status-update is sent only to a window that exists and is not    *)
(* destroyed, from the watcher callback as from the initial-read timer, and *)
(* the watcher sends nothing once stopStateFileWatcher has run.             *)
C31_Step ==
    Len(delivered') > Len(delivered) =>
        /\ Len(delivered') = Len(delivered) + 1
        /\ mainWindow = "open" /\ mainWindow' = "open"
        /\ app = "ready"
        /\ delivered'[Len(delivered')].via = "watch" => stateFileWatcher.running
        /\ delivered'[Len(delivered')].via = "timer" =>
               initialTimer.status = "pending"

C31_SendOnlyToLiveWindow == [][C31_Step]_vars

(* the window was closed before the timer fired, and the file was modified *)
(* after the watcher was stopped: neither was sent                         *)
C31_Witness ==
    /\ fx.op = "timer"
    /\ mainWindow = "destroyed"
    /\ initialTimer.status = "fired"
    /\ initialTimer.content.kind = "object"
    /\ ~stateFileWatcher.running
    /\ stateFileWatcher.seen # mtime
    /\ delivered = <<>>

(* C32 as stated: while the overlay is in input mode and the canonical     *)
(* inputPrompt is non-empty, the displayed placeholder equals inputPrompt. *)
C32_Orig_PlaceholderIsPrompt ==
    (state.isWaitingForInput /\ state.inputPrompt # "") =>
        el.placeholder = state.inputPrompt

====
